---- MODULE Spec2Model ----
(***************************************************************************)
(* A model of the eksisozluk client (src/mod.ts): the shared transport     *)
(* gate of EksiSozluk.fetch (rate limit promise, retry counter, retry      *)
(* recursion), the operations built on it (entries, Author.entries,        *)
(* Page.next, Page.prev), the Page constructor, transformTopic with entry  *)
(* and parseDate.                                                          *)
(*                                                                         *)
(* Strings are sequences of one-character strings.  A JavaScript number is *)
(* a record [nan, v]: NaN is [nan |-> TRUE, v |-> 0].  An optional value   *)
(* (undefined or a value) is a sequence of length 0 or 1.                  *)
(***************************************************************************)
EXTENDS Integers, Sequences, FiniteSets, TLC

\* ------------------------------------------------------------------------
\* JavaScript values
\* ------------------------------------------------------------------------

Undefined == << >>

Some(x) == << x >>

NaN == [nan |-> TRUE, v |-> 0]

Num(n) == [nan |-> FALSE, v |-> n]

\* a === b on numbers: NaN equals nothing, itself included
StrictEq(a, b) == ~a.nan /\ ~b.nan /\ a.v = b.v

\* a + n for a number a and an integer n
Plus(a, n) == IF a.nan THEN NaN ELSE Num(a.v + n)

Digits == <<"0", "1", "2", "3", "4", "5", "6", "7", "8", "9">>

IsDigit(ch) == \E i \in 1..10 : Digits[i] = ch

DigitVal(ch) == (CHOOSE i \in 1..10 : Digits[i] = ch) - 1

RECURSIVE Decimal(_)
Decimal(s) ==
  IF s = << >> THEN 0
  ELSE 10 * Decimal(SubSeq(s, 1, Len(s) - 1)) + DigitVal(s[Len(s)])

\* unary plus on an optional string: +undefined is NaN, +"" is 0, a run of
\* digits is its decimal value and any other text of the alphabet is NaN
ToNumber(opt) ==
  IF opt = Undefined THEN NaN
  ELSE IF \A i \in 1..Len(opt[1]) : IsDigit(opt[1][i]) THEN Num(Decimal(opt[1]))
  ELSE NaN

\* x || 0 on a number: NaN and 0 are falsy
OrZero(x) == IF x.nan \/ x.v = 0 THEN Num(0) ELSE x

\* ------------------------------------------------------------------------
\* parseDate (src/mod.ts:258-273)
\* ------------------------------------------------------------------------

DigitsAt(s, i, n) == i + n - 1 <= Len(s) /\ \A j \in i..(i + n - 1) : IsDigit(s[j])

CharAt(s, i, ch) == i <= Len(s) /\ s[i] = ch

\* the pattern with its dots left unescaped: any character separates the fields
DateHeadLoose(s) ==
  /\ DigitsAt(s, 1, 2) /\ 3 <= Len(s)
  /\ DigitsAt(s, 4, 2) /\ 6 <= Len(s)
  /\ DigitsAt(s, 7, 4)

\* /^(\d{2})\.(\d{2})\.(\d{4})/ : the mandatory part of the pattern
DateHead(s) ==
  /\ DigitsAt(s, 1, 2) /\ CharAt(s, 3, ".")
  /\ DigitsAt(s, 4, 2) /\ CharAt(s, 6, ".")
  /\ DigitsAt(s, 7, 4)

\* (?: (\d{2}):(\d{2}))? : the optional time directly after the date
TimeTail(s) ==
  /\ CharAt(s, 11, " ") /\ DigitsAt(s, 12, 2)
  /\ CharAt(s, 14, ":") /\ DigitsAt(s, 15, 2)

NoMatch == << >>

\* fulldate.match(...): no match, or the five groups (4 and 5 may be undefined)
DateMatch(s) ==
  IF ~DateHead(s) THEN NoMatch
  ELSE << Some(SubSeq(s, 1, 2)), Some(SubSeq(s, 4, 5)), Some(SubSeq(s, 7, 10)),
          IF TimeTail(s) THEN Some(SubSeq(s, 12, 13)) ELSE Undefined,
          IF TimeTail(s) THEN Some(SubSeq(s, 15, 16)) ELSE Undefined >>

IsLeap(y) == (y % 4 = 0 /\ y % 100 # 0) \/ y % 400 = 0

DaysInMonth(y, m) ==
  IF m = 1 THEN (IF IsLeap(y) THEN 29 ELSE 28)
  ELSE IF m \in {3, 5, 8, 10} THEN 30
  ELSE 31

\* the calendar day reached from day d (which may be < 1 or past the end of
\* the month) of zero-indexed month m of year y
RECURSIVE CarryDay(_, _, _)
CarryDay(y, m, d) ==
  IF d < 1 THEN
    (IF m = 0 THEN CarryDay(y - 1, 11, d + 31)
     ELSE CarryDay(y, m - 1, d + DaysInMonth(y, m - 1)))
  ELSE IF d > DaysInMonth(y, m) THEN
    (IF m = 11 THEN CarryDay(y + 1, 0, d - 31)
     ELSE CarryDay(y, m + 1, d - DaysInMonth(y, m)))
  ELSE [year |-> y, month |-> m, day |-> d]

\* new Date(year, monthIndex, day, hours, minutes) on finite numbers, read
\* back as local wall-clock fields: a year 0..99 means 1900 + year, and
\* fields out of range carry into the next larger field
NewDate(year, monthIndex, day, hours, minutes) ==
  LET yr   == IF 0 <= year /\ year <= 99 THEN 1900 + year ELSE year
      mins == hours * 60 + minutes
      ymd  == CarryDay(yr + (monthIndex \div 12), monthIndex % 12,
                       day + (mins \div 1440))
  IN [kind |-> "date", year |-> ymd.year, month |-> ymd.month, day |-> ymd.day,
      hour |-> (mins % 1440) \div 60, minute |-> mins % 60]

Thrown(msg) ==
  [kind |-> "error", year |-> 0, month |-> 0, day |-> 0, hour |-> 0, minute |-> 0,
   msg |-> msg]

\* the month passed on as written, one too large for a zero-indexed month
DateOfNoDecrement(match) ==
  LET d == NewDate(ToNumber(match[3]).v, ToNumber(match[2]).v,
                   ToNumber(match[1]).v, OrZero(ToNumber(match[4])).v,
                   OrZero(ToNumber(match[5])).v)
  IN d @@ [msg |-> ""]

\* new Date(+match[3], +match[2] - 1, +match[1], +match[4] || 0, +match[5] || 0)
DateOf(match) ==
  LET d == NewDate(ToNumber(match[3]).v, ToNumber(match[2]).v - 1,
                   ToNumber(match[1]).v, OrZero(ToNumber(match[4])).v,
                   OrZero(ToNumber(match[5])).v)
  IN d @@ [msg |-> ""]

parseDate(fulldate) ==
  IF DateMatch(fulldate) = NoMatch THEN Thrown("Invalid date format")
  ELSE DateOf(DateMatch(fulldate))

\* ------------------------------------------------------------------------
\* Inputs of parseDate: a date text is put together from a prefix, a day,
\* a separator, a month, a year, a time and an edit stamp.  Each piece
\* carries its text s, whether it is well formed (wf) and the value it
\* stands for.
\* ------------------------------------------------------------------------

Prefixes == { << >>, <<" ">> }

Days ==
  { [s |-> <<"2", "4">>, wf |-> TRUE, n |-> 24],
    [s |-> <<"3", "1">>, wf |-> TRUE, n |-> 31],
    [s |-> <<"0", "1">>, wf |-> TRUE, n |-> 1],
    [s |-> <<"4">>, wf |-> FALSE, n |-> 4] }

Separators == { ".", "-" }

Months ==
  { [s |-> <<"0", "2">>, wf |-> TRUE, n |-> 2],
    [s |-> <<"1", "2">>, wf |-> TRUE, n |-> 12],
    [s |-> <<"1", "3">>, wf |-> TRUE, n |-> 13],
    [s |-> <<"0", "x">>, wf |-> FALSE, n |-> 0] }

Years ==
  { [s |-> <<"2", "0", "2", "3">>, wf |-> TRUE, n |-> 2023],
    [s |-> <<"2", "0", "2", "4">>, wf |-> TRUE, n |-> 2024],
    [s |-> <<"0", "0", "5", "0">>, wf |-> TRUE, n |-> 50],
    [s |-> <<"2", "3">>, wf |-> FALSE, n |-> 23] }

\* given: a time is written; wf: it is written as " hh:mm"
Times ==
  { [s |-> << >>, given |-> FALSE, wf |-> TRUE, h |-> 0, m |-> 0],
    [s |-> <<" ", "1", "8", ":", "4", "1">>, given |-> TRUE, wf |-> TRUE,
     h |-> 18, m |-> 41],
    [s |-> <<" ", "0", "0", ":", "0", "0">>, given |-> TRUE, wf |-> TRUE,
     h |-> 0, m |-> 0],
    [s |-> <<" ", "2", "5", ":", "6", "1">>, given |-> TRUE, wf |-> TRUE,
     h |-> 25, m |-> 61],
    [s |-> <<" ", "1", "8", ":", "4">>, given |-> TRUE, wf |-> FALSE,
     h |-> 18, m |-> 4] }

Edits ==
  { << >>,
    <<" ", "~", " ", "2", "2", ":", "5", "5">>,
    <<" ", "~", " ", "2", "5", ".", "0", "2", ".", "2", "0", "2", "3", " ",
      "2", "2", ":", "5", "5">> }

DateInputs ==
  [prefix : Prefixes, dd : Days, sep : Separators, mm : Months, yyyy : Years,
   time : Times, edit : Edits]

\* the text of an input
TextOf(in) ==
  in.prefix \o in.dd.s \o <<in.sep>> \o in.mm.s \o <<in.sep>> \o in.yyyy.s
    \o in.time.s \o in.edit

NotCalled ==
  [kind |-> "none", year |-> 0, month |-> 0, day |-> 0, hour |-> 0, minute |-> 0,
   msg |-> ""]

\* ------------------------------------------------------------------------
\* transformTopic and entry (src/mod.ts:125-141, 160-166).  An entry node
\* of a document carries the data attributes of the #entry-item element,
\* those of the #title element beside it, and the text of its .content and
\* .entry-date children; an attribute or a child that is missing is
\* Undefined.
\* ------------------------------------------------------------------------

\* the largest number of entry nodes in a document
MaxEntries == 2

RECURSIVE TrimStart(_)
TrimStart(s) == IF s # << >> /\ s[1] = " " THEN TrimStart(Tail(s)) ELSE s

RECURSIVE TrimEnd(_)
TrimEnd(s) ==
  IF s # << >> /\ s[Len(s)] = " " THEN TrimEnd(SubSeq(s, 1, Len(s) - 1)) ELSE s

\* String.prototype.trim on the alphabet of the model
Trim(s) == TrimEnd(TrimStart(s))

\* .text() of a selection: the empty string when no node matches
TextOfNode(child) == IF child = Undefined THEN << >> ELSE child[1]

\* .html() of a selection: null (here Undefined) when no node matches
HtmlOfNode(child) == child

\* an entry node with nothing missing, the i-th of its document
WholeNode(i) ==
  [dataId |-> Some(<< Digits[i + 1] >>), dataAuthor |-> Some(<<"a">>),
   dataFavoriteCount |-> Some(<<"0">>),
   titleDataTitle |-> Some(<<"t">>), titleDataId |-> Some(<<"9">>),
   content |-> Some(<<" ", "h", "i", " ">>),
   date |-> Some(<<"2", "4", ".", "0", "2", ".", "2", "0", "2", "3", " ",
                   "1", "8", ":", "4", "1">>)]

\* the i-th entry node of a document: whole, or with one attribute or child
\* missing, or with a date label that is not a date
NodesAt(i) ==
  LET w == WholeNode(i)
  IN { w,
       [w EXCEPT !.dataId = Undefined],
       [w EXCEPT !.dataAuthor = Undefined],
       [w EXCEPT !.dataFavoriteCount = Undefined],
       [w EXCEPT !.titleDataTitle = Undefined],
       [w EXCEPT !.titleDataId = Undefined],
       [w EXCEPT !.content = Undefined],
       [w EXCEPT !.date = Undefined],
       [w EXCEPT !.date = Some(<<"x">>)] }

\* $("#entry-item").toArray() of the documents: up to MaxEntries entry nodes
EntryNodeLists ==
  UNION { { nodes \in [1..n -> UNION { NodesAt(i) : i \in 1..n }] :
              \A i \in 1..n : nodes[i] \in NodesAt(i) } : n \in 0..MaxEntries }

NotExtracted == [kind |-> "none", by |-> "none", msg |-> "", items |-> << >>]

\* an error thrown out of the extraction
Failed(msg) == [kind |-> "error", by |-> "none", msg |-> msg, items |-> << >>]

\* a list of records
Listed(items) == [kind |-> "list", by |-> "none", msg |-> "", items |-> items]

\* the object literal of the map callback, its properties evaluated in
\* order: +undefined is NaN and attr() of a missing attribute is undefined,
\* content.html() of a missing node is null and null.trim() throws a
\* TypeError, parseDate throws on a text that does not start with a date
EntryOfNode(el) ==
  IF HtmlOfNode(el.content) = Undefined
  THEN Failed("Cannot read properties of null")
  ELSE IF parseDate(TextOfNode(el.date)).kind = "error"
  THEN Failed(parseDate(TextOfNode(el.date)).msg)
  ELSE Listed(<< [id |-> ToNumber(el.dataId),
                  title |-> el.titleDataTitle,
                  titleId |-> ToNumber(el.titleDataId),
                  author |-> el.dataAuthor,
                  text |-> Trim(TextOfNode(el.content)),
                  html |-> Trim(HtmlOfNode(el.content)[1]),
                  timestamp |-> parseDate(TextOfNode(el.date)),
                  favoriteCount |-> ToNumber(el.dataFavoriteCount)] >>)

\* $("#entry-item").toArray().map(...): the records in document order, or
\* the error of the first node whose callback throws
RECURSIVE transformTopic(_)
transformTopic(nodes) ==
  IF nodes = << >> THEN Listed(<< >>)
  ELSE LET first == EntryOfNode(nodes[1])
       IN IF first.kind = "error" THEN first
          ELSE LET rest == transformTopic(Tail(nodes))
               IN IF rest.kind = "error" THEN rest
                  ELSE Listed(first.items \o rest.items)

\* this.transformTopic($)[0]: the first record, undefined for an empty list
First(list) ==
  IF list.kind = "error" THEN list
  ELSE IF list.items = << >> THEN [list EXCEPT !.kind = "undefined"]
  ELSE [list EXCEPT !.kind = "entry", !.items = << list.items[1] >>]

\* ------------------------------------------------------------------------
\* The client: configuration, documents, pages
\* ------------------------------------------------------------------------

DefaultReqDelay == 250

DefaultMaxRetries == 5

\* sleep(5000) of retry
RetrySleep == 5000

\* the reqDelay option of the second client
SlowReqDelay == 500

\* the largest maxRetries option given to a client
MaxRetriesOpt == 1

\* the number of operations a behaviour starts
MaxCalls == 3

\* the number of operations concurrent callers keep in progress at a time
MaxParallel == 2

\* the transient failures (network errors, 429 and 503 answers) of a run
MaxFaults == 3

\* the transient failures of a run that looks at pagination
PageFaults == 1

\* the largest page number a pager or a caller names
MaxPage == 3

Clients == {"c1", "c2"}

Calls == 1..MaxCalls

\* the options each client is constructed with
OptionsOf(c) ==
  IF c = "c1" THEN [reqDelay |-> Undefined, maxRetries |-> Some(MaxRetriesOpt - 1)]
  ELSE [reqDelay |-> Some(SlowReqDelay), maxRetries |-> Some(MaxRetriesOpt)]

\* constructor: options?.reqDelay ?? 250, options?.maxRetries ?? 5
Constructor(options) ==
  [reqDelay   |-> IF options.reqDelay = Undefined THEN DefaultReqDelay
                  ELSE options.reqDelay[1],
   maxRetries |-> IF options.maxRetries = Undefined THEN DefaultMaxRetries
                  ELSE options.maxRetries[1]]

\* the texts a pager attribute may hold
AttrTexts == { <<"x">> } \cup { << Digits[n + 1] >> : n \in 1..MaxPage }

AttrValues == { Undefined } \cup { Some(t) : t \in AttrTexts }

\* a document has no pager node (NoDoc), or a pager node whose two data
\* attributes are absent or hold a text
NoDoc == [pager |-> FALSE, pagecount |-> Undefined, currentpage |-> Undefined]

\* $(".pager")?.attr(name): undefined when no node matches or it lacks the attribute
PagerAttr(doc, name) ==
  IF ~doc.pager THEN Undefined
  ELSE IF name = "data-pagecount" THEN doc.pagecount
  ELSE doc.currentpage

\* +x ?? 1 : the unary plus binds first and a number is never nullish, so
\* the default is never taken
PlusOrDefault(attr, default) == ToNumber(attr)

NoPage ==
  [made |-> FALSE, pageCount |-> NaN, currentPage |-> NaN, url |-> 0, eksi |-> "c1",
   from |-> 0, via |-> "none", reqP |-> NaN]

\* Page constructor (pageCount, currentPage, eksi, url) with the operation
\* and the page it was navigated from
NewPage(eksi, doc, url, from, via, reqP) ==
  [made |-> TRUE,
   pageCount   |-> PlusOrDefault(PagerAttr(doc, "data-pagecount"), 1),
   currentPage |-> PlusOrDefault(PagerAttr(doc, "data-currentpage"), 1),
   url |-> url, eksi |-> eksi, from |-> from, via |-> via, reqP |-> reqP]

\* ------------------------------------------------------------------------
\* HTTP
\* ------------------------------------------------------------------------

Statuses == {200, 404, 429, 503}

StatusText(status) ==
  IF status = 200 THEN "OK"
  ELSE IF status = 404 THEN "Not Found"
  ELSE IF status = 429 THEN "Too Many Requests"
  ELSE "Service Unavailable"

\* Response.ok
Ok(status) == 200 <= status /\ status <= 299

\* every client or server error answered by retry()
RetriedStatusWide(status) == status >= 400

\* the statuses answered by retry()
RetriedStatus(status) == status = 429 \/ status = 503

NoResult == [kind |-> "none", msg |-> "", status |-> 0, statusText |-> ""]

PageResult == [kind |-> "page", msg |-> "", status |-> 0, statusText |-> ""]

NullResult == [kind |-> "null", msg |-> "", status |-> 0, statusText |-> ""]

MaxRetriesError ==
  [kind |-> "error", msg |-> "Max retries exceeded", status |-> 0, statusText |-> ""]

\* new Error("Request failed: " + res.status + " " + res.statusText)
RequestFailed(status) ==
  [kind |-> "error", msg |-> "Request failed", status |-> status,
   statusText |-> StatusText(status)]

\* ------------------------------------------------------------------------
\* State
\* ------------------------------------------------------------------------

VARIABLES
  rateLimit,   \* EksiSozluk.rateLimit: the time left until the promise resolves
  retryCount,  \* EksiSozluk.retryCount
  sinceLast,   \* the time since the last request went out (at most LongAgo)
  lastClient,  \* the client whose request went out last
  env,         \* the surroundings of the run: the clients in use, the
               \* operations started and kept in progress, the pages callers
               \* ask for, the documents the server holds
  faults,      \* the transient failures the network and the server still produce
  calls,       \* the operations of the callers, one record per call
  pages,       \* the Page each call constructed
  urlP,        \* the p parameter of the URL object each call created
  dateIn,      \* the input given to parseDate
  dateOut,     \* what parseDate returned or threw
  entryNodes,  \* the entry nodes of the document given to the extraction
  extracted    \* what entry() or the Page constructor got out of them

vars ==
  <<rateLimit, retryCount, sinceLast, lastClient, env, faults, calls, pages, urlP,
    dateIn, dateOut, entryNodes, extracted>>

gateVars == <<rateLimit, retryCount, sinceLast, lastClient>>

envVars == <<env, dateIn, dateOut, entryNodes, extracted>>

Cfg(c) == Constructor(OptionsOf(c))

\* sinceLast is not counted beyond the largest reqDelay of a client
LongAgo == CHOOSE t \in { Cfg(c).reqDelay : c \in Clients } :
             \A c \in Clients : Cfg(c).reqDelay <= t

\* pc: idle, gate (await EksiSozluk.rateLimit), net (await wrappedFetch),
\* sleep (await sleep(5000)), unwind (an inner fetch returned to the frames
\* that await retry()), text (await res.text()), ret (the operation returns
\* or throws), done (the caller has the result).
\* frames: the suspended fetch frames, outermost first; "catch" awaits
\* retry() in the catch block, "status" in return await retry().
\* tries, fails, rc0 describe the current send: the requests sent, the
\* transient failures met and retryCount when it started; last is the
\* status of the response that has just come in (0: none).
\* waited: the time since the last transient failure of the send (at most
\* RetrySleep); urlWas: the p parameter that the URL of the Page had when
\* next() or prev() was called on it.
IdleCall ==
  [op |-> "none", client |-> "c1", pc |-> "idle", timer |-> 0, frames |-> << >>,
   input |-> NaN, sent |-> << >>, query |-> FALSE, round |-> 0, on |-> 0,
   tries |-> 0, fails |-> 0, rc0 |-> 0, last |-> 0, waited |-> 0, urlWas |-> NaN,
   result |-> NoResult]

\* the state after the module is loaded and the clients are constructed:
\* rateLimit = Promise.resolve(), retryCount = 0, nothing sent or built yet
Fresh ==
  /\ rateLimit = 0
  /\ retryCount = 0
  /\ sinceLast = LongAgo
  /\ lastClient = "c1"
  /\ calls = [k \in Calls |-> IdleCall]
  /\ pages = [k \in Calls |-> NoPage]
  /\ urlP = [k \in Calls |-> NaN]
  /\ dateOut = NotCalled
  /\ extracted = NotExtracted

\* a well-formed first page of two
FirstOfTwo ==
  [pager |-> TRUE, pagecount |-> Some(<<"2">>), currentpage |-> Some(<<"1">>)]

\* callers that await each operation before they start the next, and
\* callers that keep MaxParallel operations in progress
Sequential == [parallel |-> 1, calls |-> MaxCalls]

Concurrent == [parallel |-> MaxParallel, calls |-> MaxParallel]

\* two clients and a failing network in front of one plain document
Init ==
  /\ Fresh
  /\ \E how \in {Sequential, Concurrent} :
       env = [clients |-> Clients, parallel |-> how.parallel, calls |-> how.calls,
              asked |-> {1}, docs |-> {FirstOfTwo}]
  /\ faults = MaxFaults
  /\ dateIn = CHOOSE in \in DateInputs : TRUE
  /\ entryNodes = << >>

\* the documents of a server whose pagers carry a data-pagecount of A
DocsWith(A) ==
  { NoDoc } \cup [pager : {TRUE}, pagecount : A, currentpage : AttrValues]

\* the data-pagecount values of a server: none that is a number, or one number
PageCounts ==
  { { a \in AttrValues : ToNumber(a).nan } }
    \cup { { a } : a \in { b \in AttrValues : ~ToNumber(b).nan } }

\* one client whose caller awaits each operation, in front of a server that
\* answers with any of these documents
InitPage ==
  /\ Fresh
  /\ \E A \in PageCounts :
       env = [clients |-> {"c2"}, parallel |-> Sequential.parallel,
              calls |-> Sequential.calls, asked |-> {MaxPage - 1},
              docs |-> DocsWith(A)]
  /\ faults = PageFaults
  /\ dateIn = CHOOSE in \in DateInputs : TRUE
  /\ entryNodes = << >>

\* a well-formed inner page
SecondOfThree ==
  [pager |-> TRUE, pagecount |-> Some(<<"3">>), currentpage |-> Some(<<"2">>)]

\* one client whose callers keep MaxParallel operations in progress, in
\* front of a server that answers with an inner page
InitShare ==
  /\ Fresh
  /\ env = [clients |-> {"c2"}, parallel |-> MaxParallel, calls |-> MaxCalls,
            asked |-> {MaxPage - 1}, docs |-> {SecondOfThree}]
  /\ faults = PageFaults
  /\ dateIn = CHOOSE in \in DateInputs : TRUE
  /\ entryNodes = << >>

\* the operations in progress
Running == { j \in Calls : calls[j].pc \notin {"idle", "done"} }

\* no operation is handing its result to its caller: the continuation of a
\* settled promise runs before any timer or network event is handled
Quiet == \A j \in Calls : calls[j].pc # "ret"

\* the call a caller starts next: callers keep at most MaxParallel operations
\* in progress
NextCall(k) ==
  /\ Quiet
  /\ calls[k].pc = "idle"
  /\ \A j \in 1..(k - 1) : calls[j].pc # "idle"
  /\ k <= env.calls
  /\ Cardinality(Running) < env.parallel

\* ------------------------------------------------------------------------
\* EksiSozluk.fetch (src/mod.ts:31-78)
\* ------------------------------------------------------------------------

\* this.fetch(input, init) up to await EksiSozluk.rateLimit: call k of the
\* record call begins a send for the URL with parameter p
BeginSend(k, call, p) ==
  [j \in Calls |->
     IF j = k THEN
       [call EXCEPT !.pc = "gate", !.timer = rateLimit, !.frames = << >>,
                    !.input = p, !.last = 0, !.tries = 0, !.fails = 0,
                    !.waited = 0, !.rc0 = retryCount]
     ELSE calls[j]]

\* a promise that never takes time to resolve
sleepNone(ms) == 0

\* sleep(ms): the time until the promise resolves
sleep(ms) == ms

\* the URL a send of another Page's navigation would read from the URL
\* object that the Pages share
TargetShared(call) ==
  IF call.op \in {"next", "prev"} THEN urlP[pages[call.on].url] ELSE call.input

\* new URL(input, EksiSozluk.baseUrl) of the input the send was called
\* with: the URL object of entries, or the copy that fetchPage made
Target(call) == call.input

\* the awaited promise has resolved: EksiSozluk.rateLimit = sleep(this.reqDelay)
\* and the request goes out
Dispatch(k) ==
  /\ Quiet
  /\ calls[k].pc = "gate"
  /\ calls[k].timer = 0
  /\ rateLimit' = sleep(Cfg(calls[k].client).reqDelay)
  /\ sinceLast' = 0
  /\ lastClient' = calls[k].client
  /\ calls' = [calls EXCEPT ![k].pc = "net",
                            ![k].sent = Append(@, Target(calls[k])),
                            ![k].tries = @ + 1]
  /\ UNCHANGED <<retryCount, faults, pages, urlP, envVars>>

\* the ceiling one failure late
RetryCeilingLate(count, maxRetries) == count > maxRetries + 1

\* the ceiling one failure early
RetryCeilingEarly(count, maxRetries) == count >= maxRetries

\* EksiSozluk.retryCount > this.maxRetries
RetryCeiling(count, maxRetries) == count > maxRetries

\* retry(): count the failure, then give up or sleep before fetching again
Retry(k, frame, status) ==
  /\ faults > 0
  /\ faults' = faults - 1
  /\ retryCount' = retryCount + 1
  /\ IF RetryCeiling(retryCount + 1, Cfg(calls[k].client).maxRetries)
     THEN calls' = [calls EXCEPT ![k].pc = "ret", ![k].frames = << >>,
                                 ![k].fails = @ + 1, ![k].last = status,
                                 ![k].result = MaxRetriesError]
     ELSE calls' = [calls EXCEPT ![k].pc = "sleep", ![k].timer = sleep(RetrySleep),
                                 ![k].fails = @ + 1, ![k].last = status,
                                 ![k].waited = 0,
                                 ![k].frames = Append(@, frame)]
  /\ UNCHANGED <<rateLimit, sinceLast, lastClient, pages, urlP, envVars>>

\* wrappedFetch rejects: catch (e) { res = await retry() }
NetworkError(k) ==
  /\ Quiet
  /\ calls[k].pc = "net"
  /\ Retry(k, "catch", 0)

\* a response with status 429 or 503: return await retry()
RespondRetried(k, status) ==
  /\ Quiet
  /\ calls[k].pc = "net"
  /\ ~Ok(status)
  /\ RetriedStatus(status)
  /\ Retry(k, "status", status)

\* any other response that is not ok: throw new Error("Request failed: ...")
RespondFailed(k, status) ==
  /\ Quiet
  /\ calls[k].pc = "net"
  /\ ~Ok(status)
  /\ ~RetriedStatus(status)
  /\ calls' = [calls EXCEPT ![k].pc = "ret", ![k].frames = << >>,
                            ![k].last = status,
                            ![k].result = RequestFailed(status)]
  /\ UNCHANGED <<gateVars, faults, pages, urlP, envVars>>

\* an ok response returned without EksiSozluk.retryCount = 0
RespondOkNoReset(k, status) ==
  /\ Quiet
  /\ calls[k].pc = "net"
  /\ Ok(status)
  /\ calls' = [calls EXCEPT ![k].last = status,
                            ![k].pc = IF calls[k].frames = << >> THEN "text"
                                      ELSE "unwind"]
  /\ UNCHANGED <<gateVars, faults, pages, urlP, envVars>>

\* an ok response: EksiSozluk.retryCount = 0; return res, to the caller or
\* to the frame that awaits retry()
RespondOk(k, status) ==
  /\ Quiet
  /\ calls[k].pc = "net"
  /\ Ok(status)
  /\ retryCount' = 0
  /\ calls' = [calls EXCEPT ![k].last = status,
                            ![k].pc = IF calls[k].frames = << >> THEN "text"
                                      ELSE "unwind"]
  /\ UNCHANGED <<rateLimit, sinceLast, lastClient, faults, pages, urlP, envVars>>

\* this.fetch(input, init) called before the sleep of retry() is over
WakeEarly(k) ==
  /\ Quiet
  /\ calls[k].pc = "sleep"
  /\ calls' = [calls EXCEPT ![k].pc = "gate", ![k].timer = rateLimit,
                            ![k].last = 0]
  /\ UNCHANGED <<gateVars, faults, pages, urlP, envVars>>

\* the sleep of retry() is over: return this.fetch(input, init), which
\* awaits the rate limit promise of that moment
Wake(k) ==
  /\ Quiet
  /\ calls[k].pc = "sleep"
  /\ calls[k].timer = 0
  /\ calls' = [calls EXCEPT ![k].pc = "gate", ![k].timer = rateLimit,
                            ![k].last = 0]
  /\ UNCHANGED <<gateVars, faults, pages, urlP, envVars>>

\* the innermost suspended frame resumes with the ok response: after the
\* catch block it runs on to EksiSozluk.retryCount = 0; return res, after
\* return await retry() it only returns
Unwind(k) ==
  /\ Quiet
  /\ calls[k].pc = "unwind"
  /\ retryCount' = IF calls[k].frames[Len(calls[k].frames)] = "catch" THEN 0
                   ELSE retryCount
  /\ calls' = [calls EXCEPT ![k].frames = SubSeq(@, 1, Len(@) - 1),
                            ![k].pc = IF Len(calls[k].frames) = 1 THEN "text"
                                      ELSE "unwind"]
  /\ UNCHANGED <<rateLimit, sinceLast, lastClient, faults, pages, urlP, envVars>>

\* time passes until the next pending timer (the rate limit promise, an
\* awaited earlier promise or a retry sleep) runs out
PendingTimers == { t \in {rateLimit} \cup { calls[k].timer : k \in Calls } : t > 0 }

MinOf(S) == CHOOSE t \in S : \A u \in S : t <= u

Elapse(t, d) == IF t > d THEN t - d ELSE 0

Tick ==
  /\ Quiet
  /\ PendingTimers # {}
  /\ LET d == MinOf(PendingTimers)
     IN /\ rateLimit' = Elapse(rateLimit, d)
        /\ calls' = [k \in Calls |->
                       [calls[k] EXCEPT
                          !.timer = Elapse(@, d),
                          !.waited = IF calls[k].pc \notin {"sleep", "gate"}
                                        \/ calls[k].fails = 0 THEN @
                                     ELSE IF @ + d > RetrySleep THEN RetrySleep
                                     ELSE @ + d]]
        /\ sinceLast' = IF sinceLast + d > LongAgo THEN LongAgo ELSE sinceLast + d
  /\ UNCHANGED <<retryCount, lastClient, faults, pages, urlP, envVars>>

\* ------------------------------------------------------------------------
\* Operations (src/mod.ts:143-158, 183-195, 209-219)
\* ------------------------------------------------------------------------

\* entries(title, query?): url.searchParams.set("p", "1"); this.fetch(url)
StartEntries(k, c, q) ==
  /\ NextCall(k)
  /\ calls' = BeginSend(k, [calls[k] EXCEPT !.op = "entries", !.client = c,
                                            !.query = q, !.round = 1], Num(1))
  /\ UNCHANGED <<gateVars, faults, pages, urlP, envVars>>

\* Author.entries(page): a new URL with p = page, fetched by fetchPage and
\* kept by the Page
StartAuthorEntries(k, c, page) ==
  /\ NextCall(k)
  /\ urlP' = [urlP EXCEPT ![k] = Num(page)]
  /\ calls' = BeginSend(k, [calls[k] EXCEPT !.op = "authorEntries", !.client = c,
                                            !.round = 1], Num(page))
  /\ UNCHANGED <<gateVars, faults, pages, envVars>>

\* the guard one page early
AtLastOff(page) == StrictEq(Plus(page.currentPage, 1), page.pageCount)

\* this.currentPage === this.pageCount
AtLast(page) == StrictEq(page.currentPage, page.pageCount)

\* this.currentPage === 1
AtFirst(page) == StrictEq(page.currentPage, Num(1))

\* the page asked for again
NextParamSame(page) == page.currentPage

\* this.currentPage + 1 + ""
NextParam(page) == Plus(page.currentPage, 1)

\* this.currentPage - 1 + ""
PrevParam(page) == Plus(page.currentPage, -1)

\* a guard of next() or prev() held: return null
ReturnNull(k, op, on) ==
  /\ calls' = [calls EXCEPT ![k].op = op, ![k].client = pages[on].eksi,
                            ![k].on = on, ![k].pc = "ret",
                            ![k].result = NullResult]
  /\ UNCHANGED <<gateVars, faults, pages, urlP, envVars>>

\* this.url.searchParams.set("p", p); this.eksi.fetchPage(this.url), which
\* fetches a copy of the URL as it is now
Navigate(k, op, on, p) ==
  /\ urlP' = [urlP EXCEPT ![pages[on].url] = p]
  /\ calls' = BeginSend(k, [calls[k] EXCEPT !.op = op, !.client = pages[on].eksi,
                                            !.on = on, !.round = 1,
                                            !.urlWas = urlP[pages[on].url]], p)
  /\ UNCHANGED <<gateVars, faults, pages, envVars>>

\* Page.next() on the Page of call on
StartNext(k, on) ==
  /\ NextCall(k)
  /\ pages[on].made
  /\ IF AtLast(pages[on]) THEN ReturnNull(k, "next", on)
     ELSE Navigate(k, "next", on, NextParam(pages[on]))

\* Page.prev() on the Page of call on
StartPrev(k, on) ==
  /\ NextCall(k)
  /\ pages[on].made
  /\ IF AtFirst(pages[on]) THEN ReturnNull(k, "prev", on)
     ELSE Navigate(k, "prev", on, PrevParam(pages[on]))

\* a second fetch whether or not a query is given
SecondFetchAlways(call) == call.op = "entries" /\ call.round = 1

\* query ? await this.fetchPage(url) : $ after the first response of entries
SecondFetch(call) == call.op = "entries" /\ call.query /\ call.round = 1

\* the operation of call k has built its Page from doc
Built(k, page) ==
  /\ pages' = [pages EXCEPT ![k] = page]
  /\ calls' = [calls EXCEPT ![k].pc = "ret", ![k].result = PageResult]

\* await res.text() and cheerio.load(html) give the document doc; the
\* operation goes on: entries with a query fetches the URL of the response
\* again, every other fetch ends in new Page(...)
ReadText(k, doc) ==
  /\ Quiet
  /\ calls[k].pc = "text"
  /\ IF SecondFetch(calls[k])
     THEN /\ calls' = BeginSend(k, [calls[k] EXCEPT !.round = 2], calls[k].input)
          /\ UNCHANGED <<pages, urlP>>
     ELSE IF calls[k].op = "entries"
     THEN /\ Built(k, NewPage(calls[k].client, doc, k, 0, "entries", calls[k].input))
          /\ urlP' = [urlP EXCEPT ![k] = calls[k].input]
     ELSE IF calls[k].op = "authorEntries"
     THEN /\ Built(k, NewPage(calls[k].client, doc, k, 0, "authorEntries",
                              calls[k].input))
          /\ UNCHANGED urlP
     ELSE /\ Built(k, NewPage(calls[k].client, doc, pages[calls[k].on].url,
                              calls[k].on, calls[k].op, calls[k].input))
          /\ UNCHANGED urlP
  /\ UNCHANGED <<gateVars, faults, envVars>>

\* the caller receives what the operation returned or threw; what the
\* operation kept while it ran is gone with it
Return(k) ==
  /\ calls[k].pc = "ret"
  /\ calls' = [calls EXCEPT ![k] = [IdleCall EXCEPT !.pc = "done",
                                                    !.result = calls[k].result]]
  /\ UNCHANGED <<gateVars, faults, pages, urlP, envVars>>

Next ==
  \/ \E k \in Calls, c \in env.clients, q \in BOOLEAN : StartEntries(k, c, q)
  \/ \E k \in Calls, c \in env.clients, page \in env.asked :
       StartAuthorEntries(k, c, page)
  \/ \E k \in Calls, on \in Calls : StartNext(k, on)
  \/ \E k \in Calls, on \in Calls : StartPrev(k, on)
  \/ \E k \in Calls : Dispatch(k)
  \/ \E k \in Calls : NetworkError(k)
  \/ \E k \in Calls, status \in Statuses : RespondRetried(k, status)
  \/ \E k \in Calls, status \in Statuses : RespondFailed(k, status)
  \/ \E k \in Calls, status \in Statuses : RespondOk(k, status)
  \/ \E k \in Calls : Wake(k)
  \/ \E k \in Calls : Unwind(k)
  \/ \E k \in Calls, doc \in env.docs : ReadText(k, doc)
  \/ \E k \in Calls : Return(k)
  \/ Tick

Spec == Init /\ [][Next]_vars

SpecPage == InitPage /\ [][Next]_vars

SpecShare == InitShare /\ [][Next]_vars

\* ------------------------------------------------------------------------
\* parseDate applied to each input text
\* ------------------------------------------------------------------------

InitDate ==
  /\ Fresh
  /\ env = [clients |-> Clients, parallel |-> 1, calls |-> MaxCalls,
            asked |-> {1}, docs |-> {FirstOfTwo}]
  /\ faults = MaxFaults
  /\ dateIn \in DateInputs
  /\ entryNodes = << >>

ParseDate ==
  /\ dateOut = NotCalled
  /\ dateOut' = parseDate(TextOf(dateIn))
  /\ UNCHANGED <<gateVars, env, faults, calls, pages, urlP, dateIn, entryNodes,
                 extracted>>

NextDate == ParseDate

SpecDate == InitDate /\ [][NextDate]_vars

\* ------------------------------------------------------------------------
\* The extraction applied to each document, once the response has arrived
\* ------------------------------------------------------------------------

InitExtract ==
  /\ Fresh
  /\ env = [clients |-> Clients, parallel |-> 1, calls |-> MaxCalls,
            asked |-> {1}, docs |-> {FirstOfTwo}]
  /\ faults = MaxFaults
  /\ dateIn = CHOOSE in \in DateInputs : TRUE
  /\ entryNodes \in EntryNodeLists

\* entry(id) from cheerio.load(html) on: return this.transformTopic($)[0]
EntryLoaded ==
  /\ extracted = NotExtracted
  /\ extracted' = [First(transformTopic(entryNodes)) EXCEPT !.by = "entry"]
  /\ UNCHANGED <<gateVars, env, faults, calls, pages, urlP, dateIn, dateOut,
                 entryNodes>>

\* new Page(eksi, $, transform, url): super(...transform($)) makes the
\* records the elements of the Page, or the constructor throws
PageLoaded ==
  /\ extracted = NotExtracted
  /\ extracted' = [transformTopic(entryNodes) EXCEPT !.by = "page"]
  /\ UNCHANGED <<gateVars, env, faults, calls, pages, urlP, dateIn, dateOut,
                 entryNodes>>

NextExtract == EntryLoaded \/ PageLoaded

SpecExtract == InitExtract /\ [][NextExtract]_vars

\* ------------------------------------------------------------------------
\* Claims about the transport gate (checked under Spec)
\* ------------------------------------------------------------------------

\* call k sends a request in this step
Sends(k) == calls[k].pc = "gate" /\ calls'[k].pc = "net"

\* the smallest reqDelay of the clients in use
MinDelay == MinOf({ Cfg(c).reqDelay : c \in env.clients })

\* C1: whatever the clients and the interleaving of their sends, a request
\* goes out at least the configured reqDelay after the request before it.
C1_DispatchesApart ==
  [][\A k \in Calls : Sends(k) => sinceLast >= MinDelay]_vars

\* the send of call k has thrown "Max retries exceeded"
GaveUp(k) == calls[k].pc = "ret" /\ calls[k].result = MaxRetriesError

\* the send that call k is in started with the counter at zero
FromZero(k) == calls[k].pc \in {"gate", "net", "sleep", "ret"} /\ calls[k].rc0 = 0

MaxRetriesOf(k) == Cfg(calls[k].client).maxRetries

\* C2 as stated: a send that starts with the counter at zero and meets only
\* transient failures gives up after exactly maxRetries + 1 failed attempts.
C2_CeilingOfEverySend ==
  \A k \in Calls :
    FromZero(k) /\ GaveUp(k) =>
      calls[k].fails = MaxRetriesOf(k) + 1 /\ calls[k].tries = MaxRetriesOf(k) + 1

\* C2 amended: when the caller awaits each send before it starts the next, a
\* send that starts with the counter at zero and meets only transient
\* failures gives up after exactly maxRetries + 1 failed attempts: it has
\* not given up before, and it makes no attempt after.
C2_CeilingOfAwaitedSend ==
  \A k \in Calls :
    env.parallel = 1 /\ FromZero(k) /\ calls[k].fails = calls[k].tries =>
      /\ calls[k].fails <= MaxRetriesOf(k) + 1
      /\ GaveUp(k) <=> calls[k].fails = MaxRetriesOf(k) + 1

C2_Witness ==
  \E k \in Calls :
    /\ env.parallel = 1 /\ FromZero(k) /\ GaveUp(k)
    /\ MaxRetriesOf(k) >= 1
    /\ calls[k].tries = MaxRetriesOf(k) + 1

\* C3: whatever came before it, an awaited send that has met maxRetries or
\* fewer transient failures is still served: it is not given up before the
\* ok response that follows can arrive.
C3_ServedWithinBudget ==
  \A k \in Calls :
    env.parallel = 1 /\ GaveUp(k) => calls[k].fails > MaxRetriesOf(k)

\* the response that has just come in for call k is a permanent failure
PermanentFailure(k) ==
  calls[k].last # 0 /\ ~Ok(calls[k].last) /\ calls[k].last \notin {429, 503}

\* C4: a response whose status is not ok and neither 429 nor 503 ends the
\* send at once with an error that carries the status and its reason
\* phrase; the step schedules no retry, sends nothing and leaves the retry
\* counter as it was.
C4_PermanentFailureStep ==
  [][\A k \in Calls :
       calls[k].pc = "net" /\ calls'[k].pc # "net" /\ PermanentFailure(k)' =>
         /\ calls'[k].pc = "ret"
         /\ calls'[k].result = RequestFailed(calls'[k].last)
         /\ calls'[k].result.statusText = StatusText(calls'[k].last)
         /\ calls'[k].sent = calls[k].sent
         /\ calls'[k].timer = 0
         /\ retryCount' = retryCount]_vars

C4_Witness ==
  \E k \in Calls :
    /\ calls[k].pc = "ret" /\ calls[k].last = 404
    /\ calls[k].result.msg = "Request failed"
    /\ calls[k].fails >= 1
    /\ retryCount >= 1

\* ------------------------------------------------------------------------
\* Claims about pages (checked under SpecPage)
\* ------------------------------------------------------------------------

\* a and b are numbers and equal
SameNumber(a, b) == ~a.nan /\ ~b.nan /\ a.v = b.v

\* C5: every constructed Page has 1 <= currentPage <= pageCount.
C5_PageInvariant ==
  \A k \in Calls :
    pages[k].made =>
      /\ ~pages[k].currentPage.nan /\ ~pages[k].pageCount.nan
      /\ 1 <= pages[k].currentPage.v
      /\ pages[k].currentPage.v <= pages[k].pageCount.v

\* call k starts op on the Page of call on in this step
Calling(k, op, on) ==
  /\ calls[k].pc = "idle" /\ calls'[k].pc # "idle"
  /\ calls'[k].op = op /\ calls'[k].on = on

\* C6: next() on a Page with currentPage = pageCount returns null and sends
\* nothing: the requests of the call, the rate limit promise, the retry
\* counter and the time of the last request stay as they were.
C6_NextAtLastPage ==
  [][\A k \in Calls, on \in Calls :
       /\ Calling(k, "next", on)
       /\ SameNumber(pages[on].currentPage, pages[on].pageCount)
       => /\ calls'[k].pc = "ret"
          /\ calls'[k].result = NullResult
          /\ calls'[k].sent = << >>
          /\ UNCHANGED <<rateLimit, retryCount, sinceLast, lastClient>>]_vars

C6_Witness ==
  \E k \in Calls :
    /\ calls[k].pc = "ret" /\ calls[k].op = "next"
    /\ calls[k].result = NullResult
    /\ SameNumber(pages[calls[k].on].currentPage, pages[calls[k].on].pageCount)
    /\ pages[calls[k].on].via = "next"

\* C7: prev() on a Page with currentPage = 1 returns null and sends nothing;
\* no prev() asks for a page below 1 and no next() for a page above the
\* pageCount of its Page.
C7_NavigationInRange ==
  \A k \in Calls :
    LET page == pages[calls[k].on]
        sent == calls[k].sent
    IN /\ calls[k].op = "prev" /\ calls[k].pc # "done"
            /\ SameNumber(page.currentPage, Num(1))
          => calls[k].result = NullResult /\ sent = << >>
       /\ calls[k].op = "prev" /\ calls[k].pc # "done"
          => \A i \in 1..Len(sent) : ~(~sent[i].nan /\ sent[i].v < 1)
       /\ calls[k].op = "next" /\ calls[k].pc # "done"
          => \A i \in 1..Len(sent) :
               ~(~sent[i].nan /\ ~page.pageCount.nan /\ sent[i].v > page.pageCount.v)

\* the Page of call k is the answer of a server that reports the page it
\* was asked for and the pageCount of the Page navigated from
Faithful(k) ==
  /\ SameNumber(pages[k].currentPage, pages[k].reqP)
  /\ SameNumber(pages[k].pageCount, pages[pages[k].from].pageCount)

\* the Page of call k is neither the first nor the last page
Inner(k) ==
  /\ ~pages[k].currentPage.nan /\ ~pages[k].pageCount.nan
  /\ 1 < pages[k].currentPage.v
  /\ pages[k].currentPage.v < pages[k].pageCount.v

\* C8: in front of a server that reports the page asked for and an unchanged
\* pageCount, next() on an inner Page P asks for currentPage + 1, prev() on
\* an inner Page asks for currentPage - 1, and prev() on the Page that
\* P.next() returned gives a Page with the currentPage of P.
C8_RoundTrip ==
  /\ \A n \in Calls :
       pages[n].made /\ pages[n].via \in {"next", "prev"} /\ Inner(pages[n].from) =>
         SameNumber(pages[n].reqP,
                    Num(pages[pages[n].from].currentPage.v
                        + (IF pages[n].via = "next" THEN 1 ELSE -1)))
  /\ \A k \in Calls :
       calls[k].op \in {"next", "prev"} /\ calls[k].pc # "done" /\ Inner(calls[k].on) =>
         \A i \in 1..Len(calls[k].sent) :
           SameNumber(calls[k].sent[i],
                      Num(pages[calls[k].on].currentPage.v
                          + (IF calls[k].op = "next" THEN 1 ELSE -1)))
  /\ \A q \in Calls :
       LET n == pages[q].from
       IN /\ pages[q].made /\ pages[q].via = "prev"
          /\ pages[n].via = "next" /\ Inner(pages[n].from)
          /\ Faithful(n) /\ Faithful(q)
          => SameNumber(pages[q].currentPage, pages[pages[n].from].currentPage)

C8_Witness ==
  \E q \in Calls :
    LET n == pages[q].from
    IN /\ pages[q].made /\ pages[q].via = "prev"
       /\ pages[n].via = "next" /\ Inner(pages[n].from)
       /\ Faithful(n) /\ Faithful(q)
       /\ SameNumber(pages[q].currentPage, pages[pages[n].from].currentPage)

\* ------------------------------------------------------------------------
\* Claims about parseDate (checked under SpecDate)
\* ------------------------------------------------------------------------

\* the text starts with dd.mm.yyyy
StartsWithDate(in) ==
  in.prefix = << >> /\ in.dd.wf /\ in.sep = "." /\ in.mm.wf /\ in.yyyy.wf

\* the text is dd.mm.yyyy, or dd.mm.yyyy hh:mm, and then any edit stamp
OfTheForm(in) == StartsWithDate(in) /\ in.time.wf

\* the fields name a day of the calendar and a time of the day
OnTheCalendar(in) ==
  /\ in.yyyy.n >= 100
  /\ in.mm.n \in 1..12
  /\ in.dd.n \in 1..DaysInMonth(in.yyyy.n, in.mm.n - 1)
  /\ in.time.h <= 23 /\ in.time.m <= 59

\* parseDate returned the date that the fields of the input spell out
ReadsAsWritten ==
  /\ dateOut.kind = "date"
  /\ dateOut.year = dateIn.yyyy.n
  /\ dateOut.month = dateIn.mm.n - 1
  /\ dateOut.day = dateIn.dd.n
  /\ dateOut.hour = dateIn.time.h
  /\ dateOut.minute = dateIn.time.m

\* C9 as stated: for every input of the form dd.mm.yyyy[ hh:mm][ ~ edit] the
\* result has the year, the month minus one, the day, the hour and the
\* minute as written (0:00 without a time), whatever the edit stamp is.
C9_FirstPairOfAnyInput ==
  dateOut # NotCalled /\ OfTheForm(dateIn) => ReadsAsWritten

\* C9 amended: the same for every such input whose fields name a day of the
\* calendar and a time of the day, with a year of 0100 or later.
C9_FirstPairOfCalendarInput ==
  dateOut # NotCalled /\ OfTheForm(dateIn) /\ OnTheCalendar(dateIn) => ReadsAsWritten

C9_Witness ==
  /\ OfTheForm(dateIn) /\ OnTheCalendar(dateIn)
  /\ dateIn.time.given /\ dateIn.edit # << >>
  /\ dateOut.kind = "date" /\ dateOut.hour = 18 /\ dateOut.minute = 41

\* C10: for every text that does not start with dd.mm.yyyy parseDate throws
\* "Invalid date format" and returns no date.
C10_InvalidDateFormat ==
  dateOut # NotCalled /\ ~StartsWithDate(dateIn) =>
    dateOut = Thrown("Invalid date format")

C10_Witness ==
  /\ dateIn.prefix = << >> /\ dateIn.dd.wf /\ dateIn.mm.wf /\ dateIn.yyyy.wf
  /\ dateIn.sep # "."
  /\ dateOut = Thrown("Invalid date format")

\* ------------------------------------------------------------------------
\* Claims about the extraction (checked under SpecExtract)
\* ------------------------------------------------------------------------

\* C11: entry(id) returns the first record extracted from the document, and
\* throws, instead of returning a value, when the document yields no record.
C11_EntryFirstOrFails ==
  extracted.by = "entry" =>
    LET list == transformTopic(entryNodes)
    IN /\ list.kind = "list" /\ list.items # << >> =>
            extracted.kind = "entry" /\ extracted.items = << list.items[1] >>
       /\ list.kind = "error" \/ list.items = << >> => extracted.kind = "error"

\* an attribute or a child that the extraction expects is missing from the
\* entry node, or its date label does not parse
Malformed(el) ==
  \/ Undefined \in {el.dataId, el.dataAuthor, el.dataFavoriteCount,
                    el.titleDataTitle, el.titleDataId, el.content, el.date}
  \/ parseDate(TextOfNode(el.date)).kind = "error"

\* C17: when an entry node of the document is malformed, the operation that
\* extracts the document throws: it returns no list and no record.
C17_AllOrNothing ==
  /\ extracted.kind # "none"
  /\ \E i \in 1..Len(entryNodes) : Malformed(entryNodes[i])
  => extracted.kind = "error"

\* ------------------------------------------------------------------------
\* More claims about pages (checked under SpecPage)
\* ------------------------------------------------------------------------

\* the attribute is missing or its text is not a number
NotNumeric(attr) == ToNumber(attr).nan

\* C12: a Page built from a document without a pager node, or with a pager
\* whose data-pagecount (data-currentpage) is missing or not a number, has
\* pageCount 1 (currentPage 1).
C12_DefaultsToOne ==
  [][\A k \in Calls, doc \in env.docs :
       ReadText(k, doc) /\ pages'[k].made =>
         /\ NotNumeric(PagerAttr(doc, "data-pagecount")) =>
              pages'[k].pageCount = Num(1)
         /\ NotNumeric(PagerAttr(doc, "data-currentpage")) =>
              pages'[k].currentPage = Num(1)]_vars

\* the Page has 1 <= currentPage <= pageCount
InRange(page) ==
  /\ ~page.currentPage.nan /\ ~page.pageCount.nan
  /\ 1 <= page.currentPage.v /\ page.currentPage.v <= page.pageCount.v

\* C13: when next() or prev() returns its new Page, the Page it was called
\* on (here one with 1 <= currentPage <= pageCount) is as it was before
\* the call: it is another Page than the new one, its currentPage and
\* pageCount are unchanged, and its URL carries the p parameter it carried
\* when the call was made.
C13_NavigationLeavesPage ==
  [][\A k \in Calls :
       /\ calls[k].pc = "text" /\ calls'[k].pc = "ret"
       /\ calls[k].op \in {"next", "prev"}
       /\ InRange(pages[calls[k].on])
       => LET on == calls[k].on
          IN /\ k # on /\ pages'[k].made
             /\ pages'[on] = pages[on]
             /\ urlP'[pages[on].url] = calls[k].urlWas]_vars

\* ------------------------------------------------------------------------
\* More claims about the transport gate (checked under Spec)
\* ------------------------------------------------------------------------

\* the requests that entries sends when nothing fails: p = 1, and with a
\* query the URL of the first response again
EntriesRequests(query) == IF query THEN << Num(1), Num(1) >> ELSE << Num(1) >>

\* C14: as long as no transient failure has happened, entries without a
\* query sends exactly one request, with p = 1, and entries with a query
\* exactly two, the second for the URL of the first response; the Page is
\* built only from the document of the last of them.
C14_EntriesDispatches ==
  \A k \in Calls :
    calls[k].op = "entries" /\ faults = MaxFaults =>
      LET all == EntriesRequests(calls[k].query)
      IN /\ Len(calls[k].sent) <= Len(all)
         /\ calls[k].sent = SubSeq(all, 1, Len(calls[k].sent))
         /\ calls[k].result = PageResult <=> pages[k].made
         /\ pages[k].made => calls[k].sent = all /\ calls[k].round = Len(all)

C14_Witness ==
  \E k \in Calls :
    /\ calls[k].op = "entries" /\ calls[k].query /\ faults = MaxFaults
    /\ calls[k].pc = "ret" /\ calls[k].result = PageResult /\ pages[k].made
    /\ calls[k].sent = << Num(1), Num(1) >>

\* the send of call k hands an ok response to its caller in this step: the
\* outermost fetch frame returns
ReturnsOk(k) == calls[k].pc \in {"net", "unwind"} /\ calls'[k].pc = "text"

\* an ok response comes in for call k in this step
OkArrives(k) == calls[k].pc = "net" /\ calls'[k].pc \in {"text", "unwind"}

\* the counter goes down only to zero, and only in a step in which a fetch
\* frame of some call runs on with an ok response
OnlyOkResets ==
  retryCount' < retryCount =>
    /\ retryCount' = 0
    /\ \E k \in Calls :
         /\ calls[k].pc \in {"net", "unwind"} /\ calls'[k].pc \in {"text", "unwind"}
         /\ Ok(calls'[k].last)

\* C15 as stated: whenever a send returns an ok response to its caller the
\* counter is zero, and no other step sets the counter back to zero.
C15_ZeroWhenOkReturned ==
  [][/\ \A k \in Calls : ReturnsOk(k) => retryCount' = 0
     /\ OnlyOkResets]_vars

\* C15 amended: whenever an ok response comes in the counter is set to zero,
\* whichever client sent the request and whatever the counter held; when the
\* caller awaits each send before it starts the next, the counter is zero
\* when the send returns the response to its caller; no other step sets the
\* counter back to zero.
C15_ZeroWhenOkArrives ==
  [][/\ \A k \in Calls : OkArrives(k) => retryCount' = 0
     /\ \A k \in Calls : env.parallel = 1 /\ ReturnsOk(k) => retryCount' = 0
     /\ OnlyOkResets]_vars

C15_Witness ==
  \E k \in Calls :
    /\ env.parallel = 1 /\ calls[k].client = "c2"
    /\ calls[k].pc = "text" /\ Ok(calls[k].last)
    /\ calls[k].rc0 >= 1 /\ retryCount = 0

\* C16: a send that met a transient failure and was not given up sleeps
\* the cooldown and then calls fetch again with the same input: the call
\* awaits the rate limit promise of that moment like any new send, the
\* request goes out RetrySleep or more after the failure, for the same URL
\* as the failed one, and sets the rate limit promise anew.
C16_RetryAfterCooldown ==
  [][\A k \in Calls :
       /\ calls[k].pc = "net" /\ calls'[k].pc = "sleep" =>
            /\ calls'[k].timer = RetrySleep /\ calls'[k].waited = 0
            /\ calls'[k].sent = calls[k].sent /\ calls'[k].input = calls[k].input
       /\ calls[k].pc = "sleep" /\ calls'[k].pc # "sleep" =>
            /\ calls'[k].pc = "gate" /\ calls'[k].timer = rateLimit
            /\ calls'[k].sent = calls[k].sent /\ calls'[k].input = calls[k].input
       /\ Sends(k) /\ calls[k].fails > 0 =>
            /\ calls[k].waited >= RetrySleep
            /\ calls[k].timer = 0
            /\ calls'[k].sent =
                 Append(calls[k].sent, calls[k].sent[Len(calls[k].sent)])
            /\ rateLimit' = Cfg(calls[k].client).reqDelay]_vars

C16_Witness ==
  \E k \in Calls :
    /\ calls[k].pc = "net" /\ calls[k].fails >= 1 /\ calls[k].tries >= 2
    /\ calls[k].waited = RetrySleep
    /\ calls[k].sent[Len(calls[k].sent)] = calls[k].sent[Len(calls[k].sent) - 1]
    /\ env.parallel > 1

\* C18 as stated: in any interleaving a send makes at most maxRetries + 1
\* attempts.
C18_AttemptsOfEverySend ==
  \A k \in Calls : calls[k].tries <= MaxRetriesOf(k) + 1

\* C18 amended: when the caller awaits each send before it starts the next,
\* a send makes at most maxRetries + 1 attempts, and at most one when the
\* counter was already above maxRetries - 1 at its start.
C18_AttemptsOfAwaitedSend ==
  \A k \in Calls :
    env.parallel = 1 =>
      /\ calls[k].tries <= MaxRetriesOf(k) + 1
      /\ calls[k].rc0 >= MaxRetriesOf(k) => calls[k].tries <= 1

C18_Witness ==
  \E k \in Calls :
    /\ env.parallel = 1 /\ MaxRetriesOf(k) >= 1
    /\ calls[k].tries = MaxRetriesOf(k) + 1
    /\ calls[k].pc = "text"

\* C20: when the caller awaits each send before it starts the next, a
\* request goes out at least the reqDelay of the client of the request
\* before it after that request.
C20_ApartByPreviousDelay ==
  [][\A k \in Calls :
       env.parallel = 1 /\ Sends(k) => sinceLast >= Cfg(lastClient).reqDelay]_vars

\* the request of a client with a longer reqDelay is about to go out sooner
\* than its own reqDelay after the request of another client
C20_Witness ==
  \E k \in Calls :
    /\ env.parallel = 1 /\ Quiet
    /\ calls[k].pc = "gate" /\ calls[k].timer = 0
    /\ lastClient # calls[k].client
    /\ sinceLast >= Cfg(lastClient).reqDelay
    /\ sinceLast < Cfg(calls[k].client).reqDelay

\* ------------------------------------------------------------------------
\* Claims about concurrent navigation (checked under SpecShare)
\* ------------------------------------------------------------------------

\* C19: a Page made by next() or prev() holds the URL object of the Page it
\* came from; all the same every request of a next() asks for
\* currentPage + 1 and every request of a prev() for currentPage - 1 of the
\* Page it was called on, whatever other calls do to the URL meanwhile and
\* also when the request is sent again after a transient failure.
C19_OwnPageNumber ==
  /\ \A n \in Calls :
       pages[n].made /\ pages[n].via \in {"next", "prev"} =>
         pages[n].url = pages[pages[n].from].url
  /\ \A k \in Calls :
       calls[k].op \in {"next", "prev"} /\ calls[k].result # NullResult =>
         LET own == Plus(pages[calls[k].on].currentPage,
                         IF calls[k].op = "next" THEN 1 ELSE -1)
         IN /\ calls[k].input = own
            /\ \A i \in 1..Len(calls[k].sent) : calls[k].sent[i] = own

\* next() and prev() run at a time on Pages with one URL object, the
\* request of one of them has gone out a second time, and the URL object
\* holds the page number of the other
C19_Witness ==
  \E j \in Calls, k \in Calls :
    /\ calls[j].op = "next" /\ calls[k].op = "prev"
    /\ pages[calls[j].on].url = pages[calls[k].on].url
    /\ calls[j].pc = "net" /\ calls[j].tries = 2 /\ calls[j].fails = 1
    /\ calls[k].pc \in {"gate", "net", "text"}
    /\ urlP[pages[calls[j].on].url] = calls[k].input
    /\ calls[j].sent = << calls[j].input, calls[j].input >>
    /\ calls[j].input # calls[k].input

====
